---- MODULE Spec2Model ----
(***************************************************************************)
(* Monte Carlo variance-reduction notes: the code cells of the lecture     *)
(* notes (antithetic sampling, control variates, moment matching, GBM      *)
(* simulation) modelled as one interpreter session.  Each action is one    *)
(* call of a function (or one run of a script cell); its random draws are  *)
(* taken from bounded grids and everything the call computes is computed   *)
(* exactly, in extended rational arithmetic.                               *)
(***************************************************************************)
EXTENDS Integers, Naturals, Sequences, FiniteSets, TLC

(***************************************************************************)
(* Bounds of the model.                                                    *)
(***************************************************************************)
\* largest sample count passed to the samplers / estimators
MaxN == 4
\* number of grid points of [0,1) a uniform draw can take: k/UGrid
UGrid == 2
\* largest sample length of the control-variate and moment-matching cells
MaxLen == 3
\* largest step count N of the GBM path simulator
MaxSteps == 2
\* largest num_simulations of monte_carlo_var
MaxSims == 2

(***************************************************************************)
(* IEEE-754 doubles as extended rationals <<n, d>> in lowest terms with    *)
(* d >= 0: d = 0 is a non-finite value (<<0,0>> NaN, <<1,0>> inf,          *)
(* <<-1,0>> -inf).  Rounding is not modelled.                              *)
(***************************************************************************)
Abs(a) == IF a < 0 THEN -a ELSE a

RECURSIVE GCD(_, _)
GCD(a, b) == IF b = 0 THEN a ELSE GCD(b, a % b)

Float(n, d) ==
    LET g == GCD(Abs(n), Abs(d))
        s == IF d < 0 THEN -1 ELSE 1
    IN  IF g = 0 THEN <<0, 0>> ELSE <<(s * n) \div g, (s * d) \div g>>

NaN == <<0, 0>>
Whole(k) == <<k, 1>>
IsNaN(a) == a = NaN
IsFinite(a) == a[2] # 0

FAdd(a, b) ==
    IF a[2] = 0 /\ b[2] = 0
    THEN (IF a = b THEN a ELSE NaN)
    ELSE IF a[2] = 0 THEN a
    ELSE IF b[2] = 0 THEN b
    ELSE LET g == GCD(a[2], b[2])
         IN  Float(a[1] * (b[2] \div g) + b[1] * (a[2] \div g), (a[2] \div g) * b[2])
FNeg(a) == <<-a[1], a[2]>>
FSub(a, b) == FAdd(a, FNeg(b))
FMul(a, b) ==
    LET g1 == GCD(Abs(a[1]), b[2])
        g2 == GCD(Abs(b[1]), a[2])
    IN  IF g1 = 0 \/ g2 = 0 THEN NaN
        ELSE Float((a[1] \div g1) * (b[1] \div g2), (a[2] \div g2) * (b[2] \div g1))
\* numpy division: x/0 is +-inf, 0/0 is NaN, with a RuntimeWarning and no raise
FDiv(a, b) == FMul(a, IF b[1] < 0 THEN <<-b[2], -b[1]>> ELSE <<b[2], b[1]>>)
\* comparisons with NaN are False
FLe(a, b) ==
    /\ ~IsNaN(a)
    /\ ~IsNaN(b)
    /\ IF a[2] = 0 /\ b[2] = 0 THEN a[1] <= b[1]
       ELSE LET g == GCD(a[2], b[2])
            IN  a[1] * (b[2] \div g) <= b[1] * (a[2] \div g)
FLt(a, b) == FLe(a, b) /\ a # b

FSquare(a) == FMul(a, a)

(***************************************************************************)
(* numpy array helpers; arrays are sequences of doubles.                   *)
(***************************************************************************)
RECURSIVE np_sum(_)
np_sum(a) == IF a = <<>> THEN Whole(0) ELSE FAdd(Head(a), np_sum(Tail(a)))

\* np.mean: the mean of an empty array is 0/0 = NaN (RuntimeWarning, no raise)
np_mean(a) == FDiv(np_sum(a), Whole(Len(a)))

RECURSIVE CountTrue(_)
CountTrue(b) == IF b = <<>> THEN 0 ELSE (IF Head(b) THEN 1 ELSE 0) + CountTrue(Tail(b))

Max(a, b) == IF a >= b THEN a ELSE b

\* np.var(a, ddof): squared deviations from the mean over max(n - ddof, 0)
np_var(a, ddof) ==
    LET m == np_mean(a)
    IN  FDiv(np_sum([i \in 1..Len(a) |-> FSquare(FSub(a[i], m))]),
             Whole(Max(Len(a) - ddof, 0)))

\* np.cov(f, g)[0, 1]: the default estimator divides by n - 1
np_cov(f, g) ==
    LET mf == np_mean(f)
        mg == np_mean(g)
    IN  FDiv(np_sum([i \in 1..Len(f) |-> FMul(FSub(f[i], mf), FSub(g[i], mg))]),
             Whole(Max(Len(f) - 1, 0)))

\* np.concatenate
np_concatenate(a, b) == a \o b

(***************************************************************************)
(* np.sqrt is exact on quadratic surds: a value a + w*sqrt(rad) with a, w  *)
(* doubles and rad a square-free integer (rad = 1 when w = 0).  Within one *)
(* call every root taken has the same radicand (dt, or the sample          *)
(* variance), so sums and products stay in this form.                      *)
(***************************************************************************)
Surd(a, w, rad) ==
    IF ~IsFinite(a) \/ ~IsFinite(w) THEN [a |-> FAdd(a, w), w |-> Whole(0), rad |-> 1]
    ELSE IF w = Whole(0) \/ rad = 1 THEN [a |-> FAdd(a, w), w |-> Whole(0), rad |-> 1]
    ELSE [a |-> a, w |-> w, rad |-> rad]

SRat(a) == Surd(a, Whole(0), 1)
SZero == SRat(Whole(0))
SNaN == SRat(NaN)
SIsNaN(s) == IsNaN(s.a)
SIsFinite(s) == IsFinite(s.a)
SRad(s, t) == IF s.w # Whole(0) THEN s.rad ELSE t.rad

SAdd(s, t) == Surd(FAdd(s.a, t.a), FAdd(s.w, t.w), SRad(s, t))
SNeg(s) == [a |-> FNeg(s.a), w |-> FNeg(s.w), rad |-> s.rad]
SSub(s, t) == SAdd(s, SNeg(t))
Sign(k) == IF k > 0 THEN 1 ELSE IF k < 0 THEN -1 ELSE 0
\* the sign of a finite surd
SSign(s) ==
    LET sa == Sign(s.a[1])
        sw == Sign(s.w[1])
    IN  IF sw = 0 THEN sa
        ELSE IF sa = 0 \/ sa = sw THEN sw
        ELSE IF FLt(FMul(FSquare(s.w), Whole(s.rad)), FSquare(s.a)) THEN sa ELSE sw

\* inf and NaN operands follow IEEE: inf * 0 = NaN, inf * x = +-inf
SMul(s, t) ==
    IF ~SIsFinite(s) THEN SRat(FMul(s.a, Whole(SSign(t))))
    ELSE IF ~SIsFinite(t) THEN SRat(FMul(t.a, Whole(SSign(s))))
    ELSE LET r == SRad(s, t)
         IN  Surd(FAdd(FMul(s.a, t.a), FMul(FMul(s.w, t.w), Whole(r))),
                  FAdd(FMul(s.a, t.w), FMul(s.w, t.a)), r)
SScale(s, f) == SMul(s, SRat(f))

\* 1/s: the conjugate over the norm; 1/0 is inf
SInv(s) ==
    IF s.w = Whole(0) THEN SRat(FDiv(Whole(1), s.a))
    ELSE IF s.a = Whole(0)
    THEN \* 1/(w*sqrt(rad)) = sqrt(rad)/(w*rad)
         Surd(Whole(0), FDiv(Whole(1), FMul(s.w, Whole(s.rad))), s.rad)
    ELSE LET norm == FSub(FSquare(s.a), FMul(FSquare(s.w), Whole(s.rad)))
         IN  Surd(FDiv(s.a, norm), FDiv(FNeg(s.w), norm), s.rad)
SDiv(s, t) == SMul(s, SInv(t))

\* the largest k with k*k dividing m, for m >= 1, by trial division from d:
\* m has no prime factor below d
RECURSIVE SquarePartFrom(_, _)
SquarePartFrom(m, d) ==
    IF d > m \div d THEN 1
    ELSE IF m % (d * d) = 0 THEN d * SquarePartFrom(m \div (d * d), d)
    ELSE IF m % d = 0 THEN SquarePartFrom(m \div d, d + 1)
    ELSE SquarePartFrom(m, d + 1)
SquarePart(m) == SquarePartFrom(m, 2)

\* np.sqrt of a double: NaN for a negative argument (RuntimeWarning, no raise)
np_sqrt(q) ==
    IF IsNaN(q) \/ q[1] < 0 THEN SNaN
    ELSE IF q[2] = 0 THEN SRat(q)
    ELSE IF q[1] = 0 THEN SZero
    ELSE \* sqrt(n/d) = kn*sqrt(rn) / (kd*sqrt(rd)) = kn*sqrt(rn*rd) / (kd*rd)
         LET kn == SquarePart(q[1])
             kd == SquarePart(q[2])
             rn == q[1] \div (kn * kn)
             rd == q[2] \div (kd * kd)
         IN  Surd(Whole(0), Float(kn, kd * rd), rn * rd)

\* np.sqrt of a surd that is a double (the only roots of surds taken here)
SSqrt(s) == IF s.w = Whole(0) THEN np_sqrt(s.a) ELSE SNaN

RECURSIVE SSum(_)
SSum(a) == IF a = <<>> THEN SZero ELSE SAdd(Head(a), SSum(Tail(a)))
SMean(a) == SScale(SSum(a), FDiv(Whole(1), Whole(Len(a))))

(***************************************************************************)
(* np.exp is exact on surds when prices are kept as exponential sums: a    *)
(* value sum_e c[e] * exp(e) is the function e |-> c[e] from its (finite,  *)
(* surd) exponents to their non-zero coefficients; a double c is c*exp(0). *)
(* Distinct exponents give linearly independent terms, so two values are   *)
(* equal exactly when the functions are.  A non-finite value is PNaN.      *)
(***************************************************************************)
PNaN == [e \in {SZero} |-> NaN]
PIsNaN(p) == p = PNaN
PCoef(p, e) == IF e \in DOMAIN p THEN p[e] ELSE Whole(0)

\* the value with coefficient f[e] at each exponent e of DOMAIN f
PMake(f) ==
    IF \E e \in DOMAIN f : ~IsFinite(f[e]) THEN PNaN
    ELSE [e \in {x \in DOMAIN f : f[x] # Whole(0)} |-> f[e]]

PConst(f) == PMake([e \in {SZero} |-> f])
PZero == PConst(Whole(0))
\* np.exp(s)
np_exp(s) == IF ~SIsFinite(s) THEN PNaN ELSE PMake([e \in {s} |-> Whole(1)])

PAdd(p, q) ==
    IF PIsNaN(p) \/ PIsNaN(q) THEN PNaN
    ELSE PMake([e \in DOMAIN p \cup DOMAIN q \cup {SZero} |-> FAdd(PCoef(p, e), PCoef(q, e))])
PScale(p, f) ==
    IF PIsNaN(p) THEN PNaN ELSE PMake([e \in DOMAIN p \cup {SZero} |-> FMul(PCoef(p, e), f)])
PSub(p, q) == PAdd(p, PScale(q, Whole(-1)))
PDiv(p, f) ==
    IF PIsNaN(p) THEN PNaN ELSE PMake([e \in DOMAIN p \cup {SZero} |-> FDiv(PCoef(p, e), f)])

RECURSIVE SumFn(_)
SumFn(f) ==
    IF DOMAIN f = {} THEN Whole(0)
    ELSE LET x == CHOOSE x \in DOMAIN f : TRUE
         IN  FAdd(f[x], SumFn([y \in DOMAIN f \ {x} |-> f[y]]))

PMul(p, q) ==
    IF PIsNaN(p) \/ PIsNaN(q) THEN PNaN
    ELSE PMake([e \in {SAdd(e1, e2) : e1 \in DOMAIN p, e2 \in DOMAIN q} \cup {SZero} |->
                   SumFn([e1 \in DOMAIN p |-> FMul(p[e1], PCoef(q, SSub(e, e1)))])])

RECURSIVE PSum(_)
PSum(a) == IF a = <<>> THEN PZero ELSE PAdd(Head(a), PSum(Tail(a)))

\* np.mean and np.var (ddof = 0) of an array of such values
PMean(a) == PDiv(PSum(a), Whole(Len(a)))
PVar(a) ==
    LET m == PMean(a)
    IN  PMean([i \in 1..Len(a) |-> PMul(PSub(a[i], m), PSub(a[i], m))])

\* Whether c*exp(e) - K > 0, for c > 0 and either K <= 0 or K = c (the
\* strikes of the model: there the sign is that of e, decided exactly)
IsPositive(c, e, K) == FLe(K, Whole(0)) \/ (SSign(e) > 0 /\ FLe(K, c))

\* np.maximum(c*exp(e) - K, 0); NaN propagates
Payoff(c, e, K) ==
    LET ST == PScale(np_exp(e), c)
    IN  IF PIsNaN(ST) THEN PNaN
        ELSE IF IsPositive(c, e, K) THEN PSub(ST, PConst(K)) ELSE PZero

\* np.cumsum of an array of surds
RECURSIVE np_cumsum(_)
np_cumsum(a) ==
    IF a = <<>> THEN <<>>
    ELSE LET front == np_cumsum(SubSeq(a, 1, Len(a) - 1))
         IN  Append(front, IF front = <<>> THEN a[Len(a)]
                           ELSE SAdd(front[Len(front)], a[Len(a)]))

\* np.linspace(0, stop, num) for num >= 0: num points, both ends included
np_linspace(stop, num) ==
    [k \in 1..num |-> IF num = 1 THEN Whole(0)
                      ELSE FMul(Whole(k - 1), FDiv(stop, Whole(num - 1)))]

(***************************************************************************)
(* Draws.  np.random.* read the process-wide generator, which is seeded    *)
(* from OS entropy: the k values of a draw are unconstrained.              *)
(***************************************************************************)
\* np.random.random(k) / np.random.rand(k): k values of [0, 1)
UniformDraws(k) == [1..k -> {Float(j, UGrid) : j \in 0..(UGrid - 1)}]
\* np.random.normal(0, 1, k) / np.random.randn(k)
NormalDraws(k) == [1..k -> {Whole(z) : z \in {-1, 0, 1}}]

VARIABLES
    fn,        \* the function (or script cell) that has just run; "none" at the prompt
    args,      \* its arguments
    locals,    \* its local arrays when it ended
    result,    \* what it returned or raised
    np_random, \* the process-wide generator behind np.random.*: "seeded" at
               \* import, "advanced" once a call has drawn from it
    seed42_read \* how many leading values of the default_rng(42) stream the
               \* session has read so far

vars == <<fn, args, locals, result, np_random, seed42_read>>

\* the process-wide generator after a call has drawn k values from it
Advance(k) == IF k > 0 THEN "advanced" ELSE np_random

Return(v) == [status |-> "return", error |-> "", value |-> v]
Raise(e) == [status |-> "raise", error |-> e, value |-> <<>>]
NoResult == [status |-> "none", error |-> "", value |-> <<>>]

Init ==
    /\ fn = "none"
    /\ args = <<>>
    /\ locals = <<>>
    /\ result = NoResult
    /\ np_random = "seeded"
    /\ seed42_read = 0

\* the script prints the result and goes on: the frame is dropped
Prompt ==
    /\ fn # "none"
    /\ fn' = "none"
    /\ args' = <<>>
    /\ locals' = <<>>
    /\ result' = NoResult
    /\ UNCHANGED <<np_random, seed42_read>>

(***************************************************************************)
(* Antithetic estimators of pi and the antithetic normal sampler.          *)
(***************************************************************************)
\* x**2 + y**2 <= 1, elementwise
InsideCircle(x, y) ==
    [i \in 1..Len(x) |-> FLe(FAdd(FSquare(x[i]), FSquare(y[i])), Whole(1))]

\* the partner repeats the base draw
OneMinus_repeat(u) == u

\* 1 - u, elementwise
OneMinus(u) == [i \in 1..Len(u) |-> FSub(Whole(1), u[i])]

\* -u, elementwise
Negate(u) == [i \in 1..Len(u) |-> FNeg(u[i])]

\* numpy broadcasting of two 1-d shapes: equal lengths, or one of them 1
Broadcastable(lx, ly) == lx = ly \/ lx = 1 \/ ly = 1
BroadcastLen(lx, ly) == IF lx = 1 THEN ly ELSE lx
Broadcast(a, l) == IF Len(a) = l THEN a ELSE [i \in 1..l |-> a[1]]

\* mean of a boolean array
MeanTrue(b) == FDiv(Whole(CountTrue(b)), Whole(Len(b)))

monte_carlo_pi_antithetic(n) ==
    /\ fn = "none"
    /\ \E u \in UniformDraws(n \div 2), y \in UniformDraws(n) :
        LET v == OneMinus(u)
            x == np_concatenate(u, v)
            l == BroadcastLen(Len(x), Len(y))
            inside_circle == InsideCircle(Broadcast(x, l), Broadcast(y, l))
        IN  /\ fn' = "monte_carlo_pi_antithetic"
            /\ args' = [n |-> n]
            \* x**2 + y**2 raises when the shapes do not broadcast
            /\ IF Broadcastable(Len(x), Len(y))
               THEN /\ locals' = [x |-> x, y |-> y]
                    /\ result' = Return(FMul(FDiv(Whole(CountTrue(inside_circle)),
                                                  Whole(n)),
                                             Whole(4)))
               ELSE /\ locals' = <<>>
                    /\ result' = Raise("ValueError")
            /\ np_random' = Advance(n \div 2 + n)
            /\ seed42_read' = seed42_read

estimate_pi(n_samples) ==
    /\ fn = "none"
    /\ \E x \in UniformDraws(n_samples), y \in UniformDraws(n_samples) :
        LET inside_circle == InsideCircle(x, y)
        IN  /\ fn' = "estimate_pi"
            /\ args' = [n |-> n_samples]
            /\ locals' = [x |-> x, y |-> y, inside_circle |-> inside_circle]
            /\ result' = Return(FMul(Whole(4), MeanTrue(inside_circle)))
            /\ np_random' = Advance(2 * n_samples)
            /\ seed42_read' = seed42_read

estimate_pi_antithetic(n_samples) ==
    /\ fn = "none"
    /\ LET half_samples == n_samples \div 2
       IN  \E x \in UniformDraws(half_samples), y \in UniformDraws(half_samples) :
            LET x_antithetic == OneMinus(x)
                y_antithetic == OneMinus(y)
                inside_circle == np_concatenate(InsideCircle(x, y),
                                                InsideCircle(x_antithetic, y_antithetic))
            IN  /\ fn' = "estimate_pi_antithetic"
                /\ args' = [n |-> n_samples]
                /\ locals' = [x |-> np_concatenate(x, x_antithetic),
                              y |-> np_concatenate(y, y_antithetic),
                              inside_circle |-> inside_circle]
                /\ result' = Return(FMul(Whole(4), MeanTrue(inside_circle)))
                /\ np_random' = Advance(2 * half_samples)
                /\ seed42_read' = seed42_read

antithetic_variates(size) ==
    /\ fn = "none"
    /\ \E normal_sample \in NormalDraws(size) :
        LET antithetic_sample == Negate(normal_sample)
            combined_samples == np_concatenate(normal_sample, antithetic_sample)
        IN  /\ fn' = "antithetic_variates"
            /\ args' = [size |-> size]
            /\ locals' = [normal_sample |-> normal_sample,
                          antithetic_sample |-> antithetic_sample]
            /\ result' = Return(combined_samples)
            /\ np_random' = Advance(size)
            /\ seed42_read' = seed42_read

(***************************************************************************)
(* monte_carlo_european_call and simulate_gbm.                             *)
(***************************************************************************)
Sigmas == {-1, 0, 1}
Rates == {0, 1}
Prices == {1, 2}
\* the strike is at the money, as in the notes (S0 = K = 100)
Strikes(S0) == {S0}
Horizons == {-1, 0, 1}
StepCounts == -1..MaxSteps

\* (r - 0.5 * sigma**2) * t
Drift(r, sigma, t) == FMul(FSub(Whole(r), FMul(Float(1, 2), Whole(sigma * sigma))), t)

\* the shock enters whatever the volatility
Diffusion_unscaled(sigma, w) == w

\* sigma * w, w a Brownian value (np.sqrt(dt) * Z, or W)
Diffusion(sigma, w) == SScale(w, Whole(sigma))

monte_carlo_european_call(S0, K, T, r, sigma, num_simulations) ==
    /\ fn = "none"
    /\ \E U \in NormalDraws(num_simulations \div 2) :
        LET dt == Whole(T)
            V == Negate(U)
            Z == np_concatenate(U, V)
            payoff == [i \in 1..Len(Z) |->
                          Payoff(Whole(S0),
                                 SAdd(SRat(Drift(r, sigma, dt)),
                                      Diffusion(sigma, SScale(np_sqrt(dt), Z[i]))),
                                 Whole(K))]
            discounted_payoff ==
                [i \in 1..Len(Z) |-> PMul(np_exp(SRat(Whole(-(r * T)))), payoff[i])]
        IN  /\ fn' = "monte_carlo_european_call"
            /\ args' = [S0 |-> S0, K |-> K, T |-> T, r |-> r, sigma |-> sigma,
                        n |-> num_simulations]
            /\ locals' = [x |-> Z, discounted_payoff |-> discounted_payoff]
            \* the error is kept as its square: (std / sqrt(n))**2 = var / n
            /\ result' = Return([price |-> PMean(discounted_payoff),
                                 error_squared |-> PDiv(PVar(discounted_payoff),
                                                        Whole(num_simulations))])
            /\ np_random' = Advance(num_simulations \div 2)
            /\ seed42_read' = seed42_read

simulate_gbm(S0, mu, sigma, T, N) ==
    /\ fn = "none"
    /\ fn' = "simulate_gbm"
    /\ args' = [S0 |-> S0, mu |-> mu, sigma |-> sigma, T |-> T, N |-> N]
    \* np.random.randn(N) runs only once T / N and np.linspace have passed
    /\ np_random' = Advance(IF N > 0 THEN N ELSE 0)
    /\ seed42_read' = seed42_read
    /\ IF N = 0
       THEN \* dt = T / N
            /\ locals' = <<>>
            /\ result' = Raise("ZeroDivisionError")
       ELSE IF N < 0
       THEN \* np.linspace(0, T, N)
            /\ locals' = <<>>
            /\ result' = Raise("ValueError")
       ELSE \E Z \in NormalDraws(N) :
                LET dt == Float(T, N)
                    t == np_linspace(Whole(T), N)
                    W == np_cumsum([i \in 1..N |-> SScale(np_sqrt(dt), Z[i])])
                    S == [k \in 1..N |->
                             PScale(np_exp(SAdd(SRat(Drift(mu, sigma, t[k])),
                                                Diffusion(sigma, W[k]))),
                                    Whole(S0))]
                IN  \* W_elapsed[k]: the time spanned by the increments summed
                    \* into W[k], dt each
                    /\ locals' = [dt |-> dt, W |-> W,
                                  W_elapsed |-> np_cumsum([i \in 1..N |-> SRat(dt)])]
                    /\ result' = Return([t |-> t, S |-> S])

(***************************************************************************)
(* monte_carlo_var(initial_value, mu, sigma, T, alpha, num_simulations)    *)
(***************************************************************************)
\* The sign of a sum of exponentials sum_e p[e]*exp(e), decided by Abel
\* summation over the exponents in increasing order: when the sums of the
\* coefficients from each exponent upwards all have one sign, that is the
\* sign of the value; "unknown" when they do not.
PSign(p) ==
    IF PIsNaN(p) THEN "nan"
    ELSE IF DOMAIN p = {} THEN "zero"
    ELSE LET tail(e) == SumFn([x \in {y \in DOMAIN p : SSign(SSub(y, e)) >= 0} |-> p[x]])
         IN  IF \A e \in DOMAIN p : FLe(Whole(0), tail(e)) THEN "pos"
             ELSE IF \A e \in DOMAIN p : FLe(tail(e), Whole(0)) THEN "neg"
             ELSE "unknown"

\* p <= q, where the sign of q - p is decided
PLe(p, q) == PSign(PSub(q, p)) \in {"pos", "zero"}

\* the array in increasing order (np.percentile partitions a sorted copy)
RECURSIVE np_sort(_)
np_sort(a) ==
    IF Len(a) <= 1 THEN a
    ELSE LET i == CHOOSE j \in 1..Len(a) : \A k \in 1..Len(a) : PLe(a[j], a[k])
             rest == [k \in 1..(Len(a) - 1) |-> IF k < i THEN a[k] ELSE a[k + 1]]
         IN  <<a[i]>> \o np_sort(rest)

\* floor of a non-negative rational
Floor(q) == q[1] \div q[2]

\* np.percentile(a, q) for 0 <= q <= 100 and a not empty: linear
\* interpolation between the order statistics around q/100 * (n - 1)
Interpolate(sorted, q) ==
    LET h == FMul(FDiv(q, Whole(100)), Whole(Len(sorted) - 1))
        lo == Floor(h)
        frac == FSub(h, Whole(lo))
    IN  IF frac = Whole(0) THEN sorted[lo + 1]
        ELSE PAdd(sorted[lo + 1],
                  PScale(PSub(sorted[lo + 2], sorted[lo + 1]), frac))
np_percentile(a, q) == Interpolate(np_sort(a), q)

\* the upper tail: 100 * alpha
PercentileRank_upper(alpha) == FMul(Whole(100), alpha)

\* 100 * (1 - alpha)
PercentileRank(alpha) == FMul(Whole(100), FSub(Whole(1), alpha))

\* confidence levels: the notes' 0.95, the median, the two ends of [0, 1]
\* and a level on each side of them
Alphas == {Float(-1, 2), Whole(0), Float(1, 2), Float(19, 20), Whole(1), Float(3, 2)}

monte_carlo_var(initial_value, mu, sigma, T, alpha, num_simulations) ==
    /\ fn = "none"
    /\ \E Z \in NormalDraws(num_simulations) :
        LET dt == Whole(T)
            ST == [i \in 1..Len(Z) |->
                      PScale(np_exp(SAdd(SRat(Drift(mu, sigma, dt)),
                                         Diffusion(sigma, SScale(np_sqrt(dt), Z[i])))),
                             Whole(initial_value))]
            losses == [i \in 1..Len(Z) |-> PSub(PConst(Whole(initial_value)), ST[i])]
            q == PercentileRank(alpha)
        IN  /\ fn' = "monte_carlo_var"
            /\ args' = [initial_value |-> initial_value, mu |-> mu, sigma |-> sigma,
                        T |-> T, alpha |-> alpha, n |-> num_simulations]
            \* np.percentile: "Percentiles must be in the range [0, 100]"
            /\ IF FLe(Whole(0), q) /\ FLe(q, Whole(100))
               THEN /\ locals' = [losses |-> losses]
                    /\ result' = Return(np_percentile(losses, q))
               ELSE /\ locals' = <<>>
                    /\ result' = Raise("ValueError")
            /\ np_random' = Advance(num_simulations)
            /\ seed42_read' = seed42_read

(***************************************************************************)
(* The control-variates cell.  Its estimator lines read only the arrays    *)
(* f_x = f(x) and g_x = g(x); they are run on every pair of arrays of      *)
(* equal length over a grid of values.                                     *)
(***************************************************************************)
Samples(n) == [1..n -> {Whole(v) : v \in {0, 1}}]

\* g(x) = 1 - x**2 "with known expected value E[g(x)] = 2/3"
known_E_g == Float(2, 3)

\* the coefficient with the sign of the notes' formula c* = Cov/Var, which the
\* cell's "+ c_optimal * (...)" then adds instead of subtracting
c_optimal_unsigned(f_x, g_x) == FDiv(np_cov(f_x, g_x), np_var(g_x, 0))

\* c_optimal = -np.cov(f_x, g_x)[0, 1] / np.var(g_x)
c_optimal(f_x, g_x) == FDiv(FNeg(np_cov(f_x, g_x)), np_var(g_x, 0))

\* the correction centred on the known expectation of g
Adjusted_known(f_x, g_x, c) ==
    [i \in 1..Len(f_x) |-> FAdd(f_x[i], FMul(c, FSub(g_x[i], known_E_g)))]

\* f_x + c * (g_x - np.mean(g_x)), elementwise
Adjusted(f_x, g_x, c) ==
    LET m == np_mean(g_x)
    IN  [i \in 1..Len(f_x) |-> FAdd(f_x[i], FMul(c, FSub(g_x[i], m)))]

\* I_hat_monte_carlo = np.mean(f_x + c_optimal * (g_x - np.mean(g_x)))
I_hat_monte_carlo(f_x, g_x) == np_mean(Adjusted(f_x, g_x, c_optimal(f_x, g_x)))

control_variates(n) ==
    /\ fn = "none"
    /\ \E f_x \in Samples(n), g_x \in Samples(n) :
        /\ fn' = "control_variates"
        /\ args' = [n |-> n]
        /\ locals' = [f_x |-> f_x, g_x |-> g_x, c_optimal |-> c_optimal(f_x, g_x)]
        /\ result' = Return(I_hat_monte_carlo(f_x, g_x))
        \* x = np.random.uniform(0, 1, n)
        /\ np_random' = Advance(n)
        /\ seed42_read' = seed42_read

(***************************************************************************)
(* generate_normal_samples(target_mean, target_std, size)                  *)
(***************************************************************************)
\* the deviation with the n - 1 denominator
np_std_ddof1(a) == np_sqrt(np_var(a, 1))

\* np.std(a) = sqrt(np.var(a)), ddof = 0
np_std(a) == np_sqrt(np_var(a, 0))

\* target_mean + target_std * (samples - np.mean(samples)) / np.std(samples)
AffineTransform(samples, target_mean, target_std) ==
    LET m == np_mean(samples)
        sd == np_std(samples)
    IN  [i \in 1..Len(samples) |->
            SAdd(SRat(target_mean),
                 SDiv(SScale(SRat(FSub(samples[i], m)), target_std), sd))]

\* np.mean and np.std of an array of surds
SVar(a) ==
    LET m == SMean(a)
    IN  SMean([i \in 1..Len(a) |-> SMul(SSub(a[i], m), SSub(a[i], m))])
SStd(a) == SSqrt(SVar(a))

\* (target_mean, target_std): the two calls of the notebook, (5, 2) and
\* (0, 1), and a negative mean; a deviation target is non-negative
Targets == {<<5, 2>>, <<0, 1>>, <<-1, 3>>}

generate_normal_samples(target_mean, target_std, size) ==
    /\ fn = "none"
    /\ \E samples \in NormalDraws(size) :
        /\ fn' = "generate_normal_samples"
        /\ args' = [target_mean |-> target_mean, target_std |-> target_std,
                    size |-> size]
        /\ locals' = [samples |-> samples]
        /\ result' = Return(AffineTransform(samples, Whole(target_mean),
                                            Whole(target_std)))
        /\ np_random' = Advance(size)
        /\ seed42_read' = seed42_read

(***************************************************************************)
(* adjust_higher_moments(samples, target_skewness, target_kurtosis)        *)
(***************************************************************************)
\* the p-th central moment of an array of surds
SPower(s, p) == IF p = 1 THEN s ELSE IF p = 2 THEN SMul(s, s)
                ELSE IF p = 3 THEN SMul(s, SMul(s, s))
                ELSE SMul(SMul(s, s), SMul(s, s))
SMoment(a, p) ==
    LET m == SMean(a)
    IN  SMean([i \in 1..Len(a) |-> SPower(SSub(a[i], m), p)])

\* scipy.stats.skew: m3 / m2**1.5 (biased)
skew(a) ==
    LET m2 == SMoment(a, 2)
    IN  SDiv(SMoment(a, 3), SMul(m2, SSqrt(m2)))

\* scipy.stats.kurtosis: m4 / m2**2 - 3 (Fisher, biased)
kurtosis(a) ==
    LET m2 == SMoment(a, 2)
    IN  SSub(SDiv(SMoment(a, 4), SMul(m2, m2)), SRat(Whole(3)))

\* every value squared before it is scaled
Scale_squares(samples, k) == [i \in 1..Len(samples) |-> SMul(SMul(samples[i], samples[i]), k)]

\* samples * k, elementwise
Scale(samples, k) == [i \in 1..Len(samples) |-> SMul(samples[i], k)]

\* nothing is added
Shift_none(samples, d) == samples

\* samples += d, elementwise
Shift(samples, d) == [i \in 1..Len(samples) |-> SAdd(samples[i], d)]

\* the arrays the notebook passes in: outputs of generate_normal_samples,
\* for its two pairs of targets
NormalizedSamples(n) ==
    {AffineTransform(z, Whole(target[1]), Whole(target[2])) :
        z \in NormalDraws(n), target \in {<<0, 1>>, <<5, 2>>}}

\* (target_skewness, target_kurtosis): the notebook's (0.5, 3), a negative
\* skewness and a zero one
HigherTargets == {<<Float(1, 2), Whole(3)>>, <<Float(-1, 2), Whole(0)>>,
                  <<Whole(0), Whole(3)>>}

adjust_higher_moments(samples, target_skewness, target_kurtosis) ==
    /\ fn = "none"
    /\ LET current_skew == skew(samples)
           current_kurtosis == kurtosis(samples)
           scaled == Scale(samples, SDiv(SRat(target_skewness), current_skew))
           adjusted_samples ==
               Shift(scaled, SSub(SRat(target_kurtosis), current_kurtosis))
       IN  /\ fn' = "adjust_higher_moments"
           /\ args' = [samples |-> samples, target_skewness |-> target_skewness,
                       target_kurtosis |-> target_kurtosis]
           /\ locals' = [current_skew |-> current_skew,
                         current_kurtosis |-> current_kurtosis]
           /\ result' = Return(adjusted_samples)
           /\ UNCHANGED <<np_random, seed42_read>>

(***************************************************************************)
(* The notebook on pseudo-random numbers: the rng cell and                 *)
(* monte_carlo_integral_prn(f, a, b, n), each on its own                   *)
(* np.random.default_rng(42).                                              *)
(***************************************************************************)
\* the leading values of the stream of default_rng(42), in thousandths
Stream42 == <<773, 438, 858, 697, 94, 975, 761, 786, 128, 450>>

\* rng.random(): the value at a position of the stream, on the grid of draws
Random42(position) == Float((Stream42[position] * UGrid) \div 1000, UGrid)

\* rng = np.random.default_rng(42); random_numbers = rng.random(10)
rng_cell ==
    /\ fn = "none"
    /\ fn' = "rng_cell"
    /\ args' = <<>>
    /\ locals' = [first_position |-> 1, rng |-> Len(Stream42)]
    /\ result' = Return([i \in 1..Len(Stream42) |-> Random42(i)])
    /\ seed42_read' = Max(seed42_read, Len(Stream42))
    /\ np_random' = np_random

\* f(x) = np.exp(-x**2)
f(x) == np_exp(SRat(FNeg(FSquare(x))))

monte_carlo_integral_prn(a, b, n) ==
    /\ fn = "none"
    /\ LET \* rng.uniform(a, b, n) on the new generator: positions 1..n
           x == [i \in 1..n |-> FAdd(Whole(a), FMul(Whole(b - a), Random42(i)))]
           f_x == [i \in 1..n |-> f(x[i])]
       IN  /\ fn' = "monte_carlo_integral_prn"
           /\ args' = [a |-> a, b |-> b, n |-> n]
           \* rng: the position of the call's generator when it returns
           /\ locals' = [first_position |-> 1, rng |-> n, x |-> x]
           /\ result' = Return(PScale(PMean(f_x), Whole(b - a)))
           /\ seed42_read' = Max(seed42_read, n)
           /\ np_random' = np_random

Bounds == {-1, 0, 1, 2}

NextPrn ==
    \/ rng_cell
    \/ \E a \in Bounds, b \in Bounds, n \in 0..MaxN : monte_carlo_integral_prn(a, b, n)
    \/ Prompt

SpecPrn == Init /\ [][NextPrn]_vars

Next ==
    \/ \E n \in 0..MaxN : monte_carlo_pi_antithetic(n)
    \/ \E n \in 0..(MaxN \div 2) : estimate_pi(n)
    \/ \E n \in 0..MaxN : estimate_pi_antithetic(n)
    \/ \E size \in 0..(MaxN \div 2) : antithetic_variates(size)
    \/ \E S0 \in Prices, T \in Horizons, r \in Rates, sigma \in Sigmas, n \in 0..MaxN :
           \E K \in Strikes(S0) : monte_carlo_european_call(S0, K, T, r, sigma, n)
    \/ \E S0 \in Prices, mu \in Rates, sigma \in Sigmas, T \in Horizons, N \in StepCounts :
           simulate_gbm(S0, mu, sigma, T, N)
    \/ \E mu \in Rates, alpha \in Alphas, n \in 1..MaxSims :
           monte_carlo_var(1, mu, 1, 1, alpha, n)
    \/ \E n \in 1..MaxLen : control_variates(n)
    \/ \E target \in Targets, size \in 0..MaxLen :
           generate_normal_samples(target[1], target[2], size)
    \/ \E n \in 1..MaxLen : \E samples \in NormalizedSamples(n), target \in HigherTargets :
           adjust_higher_moments(samples, target[1], target[2])
    \/ Prompt

Spec == Init /\ [][Next]_vars

(***************************************************************************)
(* Properties.                                                             *)
(***************************************************************************)
IsOdd(n) == n % 2 = 1

\* a[i] + a[i + n/2] = total for every i < n/2, a of even length n
Paired(a, total) ==
    LET h == Len(a) \div 2
    IN  /\ Len(a) = 2 * h
        /\ \A i \in 1..h : FAdd(a[i], a[i + h]) = total

\* C1: every antithetic sample set of even size n the samplers build has n
\* values whose pairs satisfy x[i] + x[i + n/2] = 1 (uniform draws) or
\* x[i] + x[i + n/2] = 0 (standard normal draws).
C1_AntitheticPairs ==
    /\ (fn = "monte_carlo_pi_antithetic" /\ ~IsOdd(args.n))
           => Len(locals.x) = args.n /\ Paired(locals.x, Whole(1))
    /\ (fn = "estimate_pi_antithetic" /\ ~IsOdd(args.n))
           => /\ Len(locals.x) = args.n /\ Paired(locals.x, Whole(1))
              /\ Len(locals.y) = args.n /\ Paired(locals.y, Whole(1))
    /\ (fn = "monte_carlo_european_call" /\ ~IsOdd(args.n))
           => Len(locals.x) = args.n /\ Paired(locals.x, Whole(0))
    /\ fn = "antithetic_variates"
           => Len(result.value) = 2 * args.size /\ Paired(result.value, Whole(0))

C1_Witness ==
    /\ fn = "monte_carlo_pi_antithetic"
    /\ args.n = 4
    /\ locals.x[1] = Whole(0)
    /\ locals.x[2] = Float(1, 2)
    /\ locals.x[3] = Whole(1)

\* C2: a call of monte_carlo_pi_antithetic, monte_carlo_european_call or
\* estimate_pi_antithetic with an odd sample count fails: it raises and
\* returns no estimate.
C2_OddCountRejected ==
    (/\ fn \in {"monte_carlo_pi_antithetic", "monte_carlo_european_call",
                "estimate_pi_antithetic"}
     /\ IsOdd(args.n))
        => result.status = "raise"

\* C3: for samples of length n >= 2 the coefficient is -Cov(f,g)/Var(g) with
\* the covariance and the variance both on the n - 1 denominator.
C3_UnbiasedCoefficient ==
    (fn = "control_variates" /\ args.n >= 2)
        => locals.c_optimal = FDiv(FNeg(np_cov(locals.f_x, locals.g_x)),
                                   np_var(locals.g_x, 1))

\* C4: the adjusted estimate is centred on the known expectation of the
\* control: it is the mean of f_i + c_optimal * (g_i - E[g]) with E[g] = 2/3
\* (c_optimal = -c* of the notes' formula f_i - c*(g_i - E[g])).
C4_CentredOnKnownExpectation ==
    (fn = "control_variates" /\ IsFinite(locals.c_optimal))
        => result.value =
               np_mean([i \in 1..args.n |->
                           FAdd(locals.f_x[i],
                                FMul(locals.c_optimal,
                                     FSub(locals.g_x[i], known_E_g)))])

\* C5: when the control sample is constant (Var(g) = 0) the cell does not
\* raise and its estimate is the plain mean of f.
C5_ConstantControlFallsBack ==
    (fn = "control_variates" /\ np_var(locals.g_x, 0) = Whole(0))
        => result.status = "return" /\ result.value = np_mean(locals.f_x)

\* C6: whenever the sample covariance of f and g is non-zero (n >= 2), the
\* sample variance of the adjusted values f_i + c_optimal*(g_i - mean(g)),
\* with the coefficient the cell computed, is at most that of the f_i.
C6_VarianceNotIncreased ==
    (/\ fn = "control_variates"
     /\ args.n >= 2
     /\ np_cov(locals.f_x, locals.g_x) # Whole(0))
        => FLe(np_var(Adjusted(locals.f_x, locals.g_x, locals.c_optimal), 1),
               np_var(locals.f_x, 1))

C6_Witness ==
    /\ fn = "control_variates"
    /\ args.n = 3
    /\ np_cov(locals.f_x, locals.g_x) # Whole(0)
    /\ FLt(Whole(0), np_var(Adjusted(locals.f_x, locals.g_x, locals.c_optimal), 1))
    /\ FLt(np_var(Adjusted(locals.f_x, locals.g_x, locals.c_optimal), 1),
           np_var(locals.f_x, 1))

\* C7: for every drawn sample with non-zero deviation and every target
\* (target_mean, target_std), target_std a deviation (>= 0), the output of
\* generate_normal_samples has empirical mean target_mean and empirical
\* deviation target_std.
C7_MomentsMatched ==
    (/\ fn = "generate_normal_samples"
     /\ np_var(locals.samples, 0) # Whole(0)
     /\ IsFinite(np_var(locals.samples, 0)))
        => /\ SMean(result.value) = SRat(Whole(args.target_mean))
           /\ SStd(result.value) = SRat(Whole(args.target_std))

C7_Witness ==
    /\ fn = "generate_normal_samples"
    /\ args.size = 3
    /\ args.target_mean = 5
    /\ args.target_std = 2
    /\ np_std(locals.samples).w # Whole(0)
    /\ SStd(result.value) = SRat(Whole(2))

\* C8: when the drawn sample has zero deviation (one draw, or all draws
\* equal) the normalizer falls back to the identity transform: the output
\* is the sample, with finite values.
C8_DegenerateFallsBack ==
    (/\ fn = "generate_normal_samples"
     /\ args.size >= 1
     /\ np_var(locals.samples, 0) = Whole(0))
        => /\ result.status = "return"
           /\ \A i \in 1..args.size : result.value[i] = SRat(locals.samples[i])

\* C9: in a GBM path over a horizon T > 0 the grid points are spaced by
\* dt = T/N, and at every grid index k the increments summed into W[k] span
\* exactly the time t[k].
C9_GridMatchesIncrements ==
    (fn = "simulate_gbm" /\ result.status = "return" /\ args.T > 0)
        => /\ \A k \in 1..(args.N - 1) :
                  FSub(result.value.t[k + 1], result.value.t[k]) = locals.dt
           /\ \A k \in 1..args.N :
                  locals.W_elapsed[k] = SRat(result.value.t[k])

\* C11: with sigma = 0 and a horizon T > 0 the GBM output is the deterministic
\* growth S0*exp(mu*t), whatever the shocks, and holds no NaN: every point of
\* a simulate_gbm path (N >= 1) is S0*exp(mu*t[k]), and every discounted
\* payoff of monte_carlo_european_call (num_simulations >= 2) is
\* exp(-r*T)*max(S0*exp(r*T) - K, 0).
C11_ZeroVolatilityDeterministic ==
    /\ (/\ fn = "simulate_gbm"
        /\ args.sigma = 0 /\ args.T > 0 /\ args.N >= 1)
           => /\ result.status = "return"
              /\ \A k \in 1..args.N :
                     /\ ~PIsNaN(result.value.S[k])
                     /\ result.value.S[k] =
                            PScale(np_exp(SRat(FMul(Whole(args.mu), result.value.t[k]))),
                                   Whole(args.S0))
    /\ (/\ fn = "monte_carlo_european_call"
        /\ args.sigma = 0 /\ args.T > 0 /\ args.n >= 2)
           => /\ result.status = "return"
              /\ ~PIsNaN(result.value.price)
              /\ \A i \in 1..Len(locals.discounted_payoff) :
                     locals.discounted_payoff[i] =
                         PMul(np_exp(SRat(Whole(-(args.r * args.T)))),
                              Payoff(Whole(args.S0), SRat(Whole(args.r * args.T)),
                                     Whole(args.K)))

C11_Witness ==
    /\ fn = "simulate_gbm"
    /\ args.sigma = 0 /\ args.T = 1 /\ args.N = 2 /\ args.mu = 1
    /\ locals.W[1] # SZero
    /\ locals.W[2] # locals.W[1]
    /\ result.value.S[2] # result.value.S[1]

\* C10: a call of a GBM simulator with sigma < 0, T <= 0 or n_steps < 1
\* fails: it raises and returns no path and no terminal values.
C10_InvalidParametersRejected ==
    (\/ /\ fn = "simulate_gbm"
        /\ (args.sigma < 0 \/ args.T <= 0 \/ args.N < 1)
     \/ /\ fn = "monte_carlo_european_call"
        /\ (args.sigma < 0 \/ args.T <= 0))
        => result.status = "raise"

\* C12: for valid parameters and num_simulations >= 2,
\* monte_carlo_european_call returns the mean of the discounted payoffs and
\* a standard error equal to their deviation over the square root of the
\* number of payoffs averaged (squared: their variance over that number).
C12_StandardErrorOverAveraged ==
    (/\ fn = "monte_carlo_european_call"
     /\ args.n >= 2 /\ args.T > 0 /\ args.sigma >= 0)
        => /\ result.value.price = PMean(locals.discounted_payoff)
           /\ result.value.error_squared =
                  PDiv(PVar(locals.discounted_payoff),
                       Whole(Len(locals.discounted_payoff)))

\* C13: a call of monte_carlo_var with alpha <= 0 or alpha >= 1, the ends
\* alpha = 0 and alpha = 1 included, fails: it raises and returns no value.
C13_AlphaOutsideUnitIntervalRejected ==
    (/\ fn = "monte_carlo_var"
     /\ (FLe(args.alpha, Whole(0)) \/ FLe(Whole(1), args.alpha)))
        => result.status = "raise"

\* C14: for the notes' kind of parameters (a positive initial value, a
\* positive drift mu - sigma**2/2, T = 1, alpha = 0.95) the value
\* monte_carlo_var returns is positive: its sign is never decided negative
\* or zero.
C14_ValueAtRiskPositive ==
    (/\ fn = "monte_carlo_var"
     /\ args.initial_value > 0 /\ args.mu = 1 /\ args.sigma = 1 /\ args.T = 1
     /\ args.alpha = Float(19, 20))
        => /\ result.status = "return"
           /\ PSign(result.value) \notin {"neg", "zero", "nan"}

\* the value monte_carlo_var returns at level alpha on losses in increasing
\* order
VaR(sorted, alpha) == Interpolate(sorted, PercentileRank(alpha))

UnitAlphas == {a \in Alphas : FLe(Whole(0), a) /\ FLe(a, Whole(1))}

\* C20: on the losses of a call, the value monte_carlo_var returns is the
\* percentile of rank 100*(1 - alpha): over the levels alpha of [0, 1] it
\* does not increase with alpha, it is at most the median loss for every
\* alpha >= 0.5, and it lies between the smallest and the largest loss.
C20_LowerTailPercentile ==
    (fn = "monte_carlo_var" /\ result.status = "return")
        => LET sorted == np_sort(locals.losses)
               at == [a \in UnitAlphas |-> VaR(sorted, a)]
           IN  /\ result.value = at[args.alpha]
               /\ \A a1, a2 \in UnitAlphas : FLe(a1, a2) => PLe(at[a2], at[a1])
               /\ \A a \in UnitAlphas :
                      /\ FLe(Float(1, 2), a) => PLe(at[a], at[Float(1, 2)])
                      /\ PLe(sorted[1], at[a])
                      /\ PLe(at[a], sorted[Len(sorted)])

C20_Witness ==
    /\ fn = "monte_carlo_var"
    /\ result.status = "return"
    /\ args.n = 2
    /\ args.alpha = Float(19, 20)
    /\ PSign(PSub(VaR(np_sort(locals.losses), Float(1, 2)), result.value)) = "pos"
    /\ PSign(PSub(result.value, VaR(np_sort(locals.losses), Whole(1)))) = "pos"

Coefficients == {Float(-2, 1), Float(-1, 2), Whole(0), Whole(1), Float(3, 2)}

ScaleOf == SDiv(SRat(args.target_skewness), locals.current_skew)
ShiftOf == SSub(SRat(args.target_kurtosis), locals.current_kurtosis)
SAbs(s) == SScale(s, Whole(SSign(s)))

\* C17: adjust_higher_moments applied to a sample of mean m and deviation s
\* (non-zero skewness) returns a sample of mean k*m + d and deviation |k|*s,
\* k = target_skewness/current_skew, d = target_kurtosis - current_kurtosis:
\* the mean and the deviation set before are kept only if |k| = 1 and
\* (k - 1)*m + d = 0.
C17_LowerMomentsPerturbed ==
    (/\ fn = "adjust_higher_moments"
     /\ SIsFinite(locals.current_skew)
     /\ locals.current_skew # SZero)
        => LET m == SMean(args.samples)
               sd == SStd(args.samples)
           IN  /\ SMean(result.value) = SAdd(SMul(ScaleOf, m), ShiftOf)
               /\ SStd(result.value) = SMul(SAbs(ScaleOf), sd)
               /\ (SMean(result.value) = m /\ SStd(result.value) = sd)
                      <=> (/\ SAbs(ScaleOf) = SRat(Whole(1))
                           /\ SAdd(SMul(SSub(ScaleOf, SRat(Whole(1))), m), ShiftOf) = SZero)

C17_Witness ==
    /\ fn = "adjust_higher_moments"
    /\ SIsFinite(locals.current_skew)
    /\ locals.current_skew # SZero
    /\ SMean(args.samples) = SRat(Whole(5))
    /\ SStd(args.samples) = SRat(Whole(2))
    /\ SMean(result.value) # SRat(Whole(5))
    /\ SStd(result.value) # SRat(Whole(2))
    /\ SIsFinite(SStd(result.value))

\* C19: adjust_higher_moments is the affine map x -> k*x + d: for an input
\* of non-zero skewness and a non-zero k the output has the excess kurtosis
\* of the input and sign(k) times its skewness; when current_skew = 0 the
\* division by zero leaves no finite value in the output.
C19_AffineKeepsShape ==
    /\ (/\ fn = "adjust_higher_moments"
        /\ SIsFinite(locals.current_skew)
        /\ locals.current_skew # SZero
        /\ args.target_skewness # Whole(0))
           => /\ kurtosis(result.value) = locals.current_kurtosis
              /\ skew(result.value) =
                     SScale(locals.current_skew, Whole(SSign(ScaleOf)))
    /\ (fn = "adjust_higher_moments" /\ locals.current_skew = SZero)
           => \A i \in 1..Len(result.value) : ~SIsFinite(result.value[i])

C19_Witness ==
    /\ fn = "adjust_higher_moments"
    /\ Len(args.samples) = 3
    /\ SIsFinite(locals.current_skew)
    /\ locals.current_skew # SZero
    /\ args.target_skewness = Float(1, 2)
    /\ skew(result.value) # SRat(Float(1, 2))
    /\ kurtosis(result.value) # SRat(args.target_kurtosis)
    /\ SIsFinite(kurtosis(result.value))

\* C15: no sampling or estimation function reads or advances a hidden
\* process-wide generator: every call leaves np.random's generator in the
\* state it found it (its draws come from a state passed to it).
C15_NoHiddenGenerator == [][np_random' = np_random]_vars

\* C16: a generator is never reset implicitly: a call of
\* monte_carlo_integral_prn that draws from the seed-42 stream starts after
\* the values the session has already read from it, so no call reads again
\* what an earlier call consumed.
C16_NeverRereads ==
    [][(fn' = "monte_carlo_integral_prn" /\ locals'.rng >= 1)
           => locals'.first_position > seed42_read]_vars

====
